---- MODULE Spec2Model ----
(***************************************************************************)
(* Multi-tenant notes REST API (src/index.js) over the Tenant / User /     *)
(* Note tables of the migration (src/unnamed/part_000).                    *)
(*                                                                         *)
(* Every request handler is an async function: it runs synchronously up to *)
(* its first awaited database call and is suspended at every later await.  *)
(* One action models the arrival of a request together with the middleware *)
(* chain and the handler's code up to and including its first database     *)
(* call; one further action models each later awaited call together with   *)
(* the code that follows it up to the next await or the response.          *)
(***************************************************************************)
EXTENDS Naturals, Sequences, FiniteSets, TLC

\* ------------------------------------------------------------------ bounds

\* Note ids the database hands out (ids are fresh, never reused).
MaxNotes == 5

\* Request slots: two requests may be in flight at once, which is what a
\* race between two handlers takes.
Slots == {1, 2}

\* ------------------------------------------------------- constants of the code

JWT_SECRET == "dev_jwt_secret_change_me"
FreeLimit == 3

UNDEFINED == "<undefined>"
Plans == {"FREE", "PRO"}
Roles == {"ADMIN", "MEMBER"}

\* ---------------------------------------------------------- provisioned rows

\* Tenant and User rows are created outside the API; no handler inserts,
\* deletes or re-keys them.  Only Tenant.plan is ever written.
Tenants == {"t1", "t2"}
Slug == [t \in Tenants |-> IF t = "t1" THEN "acme" ELSE "globex"]

bcryptHash(password) == <<"bcrypt", password>>
bcryptCompare(password, hash) == bcryptHash(password) = hash

Users ==
  { [id |-> "u1", email |-> "admin@acme.test", password |-> bcryptHash("password"),
     role |-> "ADMIN", tenantId |-> "t1"],
    [id |-> "u2", email |-> "user@globex.test", password |-> bcryptHash("password"),
     role |-> "MEMBER", tenantId |-> "t2"] }

\* Rows are kept as records; an optional row (findUnique / findFirst) is a
\* set holding at most one row.
The(opt) == CHOOSE r \in opt : TRUE

\* ------------------------------------------------------------------ tokens

jwtSign(payload) == [payload |-> payload, key |-> JWT_SECRET, expired |-> FALSE]
jwtVerify(token, secret) == token.key = secret /\ ~token.expired

Claims(u) == [userId |-> u.id, tenantId |-> u.tenantId, role |-> u.role]

\* Tokens a client may present: the ones login issues, one signed with
\* another key (a tampered payload), one past its expiry.
ForgedToken ==
  [payload |-> [userId |-> "u2", tenantId |-> "t1", role |-> "ADMIN"],
   key |-> "forged", expired |-> FALSE]
ExpiredToken ==
  [payload |-> [userId |-> "u1", tenantId |-> "t1", role |-> "ADMIN"],
   key |-> JWT_SECRET, expired |-> TRUE]
IssuedTokens == { jwtSign(Claims(u)) : u \in Users }

\* The Authorization header, as split(' ') sees it: a sequence of words.
NoHeader == <<>>
Bearer(token) == <<"Bearer", token>>
GoodHeaders == { Bearer(t) : t \in IssuedTokens }
BadHeaders == { NoHeader, Bearer(ForgedToken), Bearer(ExpiredToken) }
Headers == GoodHeaders \cup BadHeaders

\* ------------------------------------------------------------------ state

VARIABLES
  plan,      \* Tenant.plan, by tenant id
  notes,     \* the Note table: a set of rows
  nextId,    \* the next fresh note id
  pc,        \* per slot: where the handler of the slot's request stands
  req,       \* per slot: the request
  resp,      \* per slot: the response sent (when pc = "done")
  tenant,    \* per slot: the handler's `tenant` (optional row)
  count,     \* per slot: the handler's `count`
  existing,  \* per slot: the handler's `existing` (optional row)
  user,      \* per slot: the handler's `user` of /login (optional row)
  dbOps      \* per slot: the database calls the request has made, in order

vars == <<plan, notes, nextId, pc, req, resp, tenant, count, existing, user, dbOps>>

TenantRow(t) == [id |-> t, slug |-> Slug[t], plan |-> plan[t]]

NoResp == [status |-> 0, body |-> <<>>]
Json(status, body) == [status |-> status, body |-> body]
Error(status, message) == Json(status, [error |-> message])

Request(route, auth, id, slug, title, content, email, password) ==
  [route |-> route, auth |-> auth, id |-> id, slug |-> slug, title |-> title,
   content |-> content, email |-> email, password |-> password]
NoReq == Request("none", NoHeader, 0, UNDEFINED, UNDEFINED, UNDEFINED, UNDEFINED, UNDEFINED)

\* JavaScript's !x for the string inputs of the handlers.
Falsy(x) == x \in {UNDEFINED, ""}

\* ------------------------------------------------------------- middleware

\* const [, token] = auth.split(' ')
TokenOf(auth) == IF Len(auth) >= 2 THEN {auth[2]} ELSE {}

\* As authenticate, with the token decoded but never verified.
AuthenticateDecodeOnly(auth) ==
  IF TokenOf(auth) = {}
    THEN [next |-> FALSE, user |-> {}, resp |-> Error(401, "Missing token")]
  ELSE [next |-> TRUE, user |-> {The(TokenOf(auth)).payload}, resp |-> NoResp]

\* authenticate: the identity attached to the request, or the 401 sent.
Authenticate(auth) ==
  IF TokenOf(auth) = {}
    THEN [next |-> FALSE, user |-> {}, resp |-> Error(401, "Missing token")]
  ELSE IF ~jwtVerify(The(TokenOf(auth)), JWT_SECRET)
    THEN [next |-> FALSE, user |-> {}, resp |-> Error(401, "Invalid token")]
  ELSE [next |-> TRUE, user |-> {The(TokenOf(auth)).payload}, resp |-> NoResp]

\* As requireRole, with the role never compared.
RequireRoleAnyRole(role, reqUser) ==
  IF reqUser = {}
    THEN [next |-> FALSE, resp |-> Error(401, "Unauthorized")]
  ELSE [next |-> TRUE, resp |-> NoResp]

\* requireRole(role), given req.user as an optional identity.
RequireRole(role, reqUser) ==
  IF reqUser = {}
    THEN [next |-> FALSE, resp |-> Error(401, "Unauthorized")]
  ELSE IF The(reqUser).role # role
    THEN [next |-> FALSE, resp |-> Error(403, "Forbidden")]
  ELSE [next |-> TRUE, resp |-> NoResp]

\* req.user of the request in slot p, once authenticate has passed it.
ReqUser(p) == The(Authenticate(req[p].auth).user)

\* ---------------------------------------------------------------- queries

\* prisma.tenant.findUnique({ where: { id } })
TenantFindUnique(id) == IF id \in Tenants THEN {TenantRow(id)} ELSE {}
\* prisma.tenant.findFirst({ where: { slug } })
TenantFindFirst(slug) == { TenantRow(t) : t \in {t \in Tenants : Slug[t] = slug} }
\* prisma.user.findUnique({ where: { email } })
UserFindUnique(email) == { u \in Users : u.email = email }
\* prisma.note.count({ where: { tenantId } })
NoteCount(tenantId) == Cardinality({ n \in notes : n.tenantId = tenantId })
\* As the findFirst below, with the note matched by id alone.
NoteFindFirstById(id, tenantId) == { n \in notes : n.id = id }
\* prisma.note.findFirst({ where: { id, tenantId } })
NoteFindFirst(id, tenantId) == { n \in notes : n.id = id /\ n.tenantId = tenantId }
\* prisma.note.findMany({ where: { tenantId }, orderBy: { createdAt: 'desc' } })
\* Ids are handed out in creation order, so createdAt orders as id does.
RECURSIVE Newest(_)
Newest(rows) ==
  IF rows = {} THEN <<>>
  ELSE LET n == CHOOSE r \in rows : \A s \in rows : s.id <= r.id
       IN <<n>> \o Newest(rows \ {n})
NoteFindMany(tenantId) == Newest({ n \in notes : n.tenantId = tenantId })

\* As the limit test below, off by one.
LimitReachedAbove(c) == c > FreeLimit
\* As the limit test below, with the test dropped.
LimitNeverReached(c) == FALSE
\* if (count >= 3)
LimitReached(c) == c >= FreeLimit

\* As the upgrade's write below, with the plan toggled.
Toggled(row) == [row EXCEPT !.plan = IF @ = "PRO" THEN "FREE" ELSE "PRO"]
\* data: { plan: 'PRO' }
Upgraded(row) == [row EXCEPT !.plan = "PRO"]

\* data: { title, content }: an undefined field is left as it is.
Updated(row, title, content) ==
  [row EXCEPT !.title = IF title = UNDEFINED THEN @ ELSE title,
              !.content = IF content = UNDEFINED THEN @ ELSE content]

\* -------------------------------------------------------------------- init

SeedNotes ==
  { [id |-> 1, title |-> "a", content |-> "a", tenantId |-> "t1", ownerId |-> "u1"],
    [id |-> 2, title |-> "a", content |-> "a", tenantId |-> "t1", ownerId |-> "u1"],
    [id |-> 3, title |-> "a", content |-> "a", tenantId |-> "t2", ownerId |-> "u2"] }

Init ==
  /\ plan = [t \in Tenants |-> "FREE"]
  /\ notes = SeedNotes
  /\ nextId = 4
  /\ pc = [p \in Slots |-> "idle"]
  /\ req = [p \in Slots |-> NoReq]
  /\ resp = [p \in Slots |-> NoResp]
  /\ tenant = [p \in Slots |-> {}]
  /\ count = [p \in Slots |-> 0]
  /\ existing = [p \in Slots |-> {}]
  /\ user = [p \in Slots |-> {}]
  /\ dbOps = [p \in Slots |-> <<>>]

\* ------------------------------------------------------- request plumbing

InFlight(p) == pc[p] \notin {"idle", "done"}

\* What the first stretch of a handler (the middleware chain and the code up
\* to and including the first database call) comes to: the await the handler
\* is suspended at, or "done" with the response sent; the database calls it
\* made; the locals it set.
Reply(response, ops) ==
  [at |-> "done", resp |-> response, ops |-> ops, tenant |-> {}, existing |-> {}, user |-> {}]
Suspend(at, ops, t, e, u) ==
  [at |-> at, resp |-> NoResp, ops |-> ops, tenant |-> t, existing |-> e, user |-> u]

\* A finished exchange stays on record until the next request arrives.
Kept(f, blank) == [q \in Slots |-> IF pc[q] = "done" THEN blank ELSE f[q]]

\* Request r arrives and takes slot p, the first slot with no handler in
\* flight; its handler runs its first stretch, which comes to `out`.
Begin(p, r, out) ==
  /\ ~InFlight(p)
  /\ \A q \in Slots : q < p => InFlight(q)
  /\ req' = [Kept(req, NoReq) EXCEPT ![p] = r]
  /\ pc' = [Kept(pc, "idle") EXCEPT ![p] = out.at]
  /\ resp' = [Kept(resp, NoResp) EXCEPT ![p] = out.resp]
  /\ dbOps' = [Kept(dbOps, <<>>) EXCEPT ![p] = out.ops]
  /\ tenant' = [Kept(tenant, {}) EXCEPT ![p] = out.tenant]
  /\ count' = [Kept(count, 0) EXCEPT ![p] = 0]
  /\ existing' = [Kept(existing, {}) EXCEPT ![p] = out.existing]
  /\ user' = [Kept(user, {}) EXCEPT ![p] = out.user]

\* The handler of slot p sends `r` and ends.
Send(p, r) ==
  /\ pc' = [pc EXCEPT ![p] = "done"]
  /\ resp' = [resp EXCEPT ![p] = r]

\* The handler of slot p is suspended at the await named `at`.
Await(p, at) ==
  /\ pc' = [pc EXCEPT ![p] = at]
  /\ UNCHANGED resp

Did(p, op) == dbOps' = [dbOps EXCEPT ![p] = Append(@, op)]

\* Requests for a note that wait for their insert.
PendingCreates == { p \in Slots : pc[p] \in {"create.count", "create.insert"} }

\* ------------------------------------------------------------- POST /notes

\* As the entry below, with the plan never tested: no tenant is limited.
PostNotesEntryNoLimit(auth, title, content) ==
  LET a == Authenticate(auth) IN
  IF ~a.next THEN Reply(a.resp, <<>>)
  ELSE IF Falsy(title) \/ Falsy(content)
    THEN Reply(Error(400, "Title and content are required"), <<>>)
  ELSE LET t == TenantFindUnique(The(a.user).tenantId) IN
    IF t = {} THEN Reply(Error(404, "Tenant not found"), <<"tenant.findUnique">>)
    ELSE Suspend("create.insert", <<"tenant.findUnique">>, t, {}, {})

\* authenticate, the body check, then tenant.findUnique and the plan test.
PostNotesEntry(auth, title, content) ==
  LET a == Authenticate(auth) IN
  IF ~a.next THEN Reply(a.resp, <<>>)
  ELSE IF Falsy(title) \/ Falsy(content)
    THEN Reply(Error(400, "Title and content are required"), <<>>)
  ELSE LET t == TenantFindUnique(The(a.user).tenantId) IN
    IF t = {} THEN Reply(Error(404, "Tenant not found"), <<"tenant.findUnique">>)
    ELSE IF The(t).plan = "FREE"
      THEN Suspend("create.count", <<"tenant.findUnique">>, t, {}, {})
    ELSE Suspend("create.insert", <<"tenant.findUnique">>, t, {}, {})

PostNotes(p, auth, title, content) ==
  /\ Begin(p, Request("POST /notes", auth, 0, UNDEFINED, title, content, UNDEFINED, UNDEFINED),
           PostNotesEntry(auth, title, content))
  /\ nextId + Cardinality(PendingCreates) <= MaxNotes
  /\ UNCHANGED <<plan, notes, nextId>>

\* note.count and the limit test.
PostNotesCount(p) ==
  /\ pc[p] = "create.count"
  /\ LET c == NoteCount(The(tenant[p]).id) IN
       /\ count' = [count EXCEPT ![p] = c]
       /\ Did(p, "note.count")
       /\ IF LimitReached(c)
            THEN Send(p, Error(402, "FREE plan limit reached. Upgrade to PRO."))
            ELSE Await(p, "create.insert")
  /\ UNCHANGED <<plan, notes, nextId, req, tenant, existing, user>>

NewNote(id, title, content, reqUser) ==
  [id |-> id, title |-> title, content |-> content,
   tenantId |-> reqUser.tenantId, ownerId |-> reqUser.userId]

\* note.create and the 201.
PostNotesCreate(p) ==
  /\ pc[p] = "create.insert"
  /\ LET note == NewNote(nextId, req[p].title, req[p].content, ReqUser(p)) IN
       /\ notes' = notes \cup {note}
       /\ nextId' = nextId + 1
       /\ Did(p, "note.create")
       /\ Send(p, Json(201, note))
  /\ UNCHANGED <<plan, req, tenant, count, existing, user>>

\* -------------------------------------------------------------- GET /notes

GetNotesEntry(auth) ==
  LET a == Authenticate(auth) IN
  IF ~a.next THEN Reply(a.resp, <<>>)
  ELSE Reply(Json(200, NoteFindMany(The(a.user).tenantId)), <<"note.findMany">>)

GetNotes(p, auth) ==
  /\ Begin(p, Request("GET /notes", auth, 0, UNDEFINED, UNDEFINED, UNDEFINED, UNDEFINED, UNDEFINED),
           GetNotesEntry(auth))
  /\ UNCHANGED <<plan, notes, nextId>>

\* ---------------------------------------------------------- GET /notes/:id

GetNoteEntry(auth, id) ==
  LET a == Authenticate(auth) IN
  IF ~a.next THEN Reply(a.resp, <<>>)
  ELSE LET note == NoteFindFirst(id, The(a.user).tenantId) IN
    IF note = {} THEN Reply(Error(404, "Not found"), <<"note.findFirst">>)
    ELSE Reply(Json(200, The(note)), <<"note.findFirst">>)

GetNote(p, auth, id) ==
  /\ Begin(p, Request("GET /notes/:id", auth, id, UNDEFINED, UNDEFINED, UNDEFINED, UNDEFINED, UNDEFINED),
           GetNoteEntry(auth, id))
  /\ UNCHANGED <<plan, notes, nextId>>

\* ------------------------------------------- PUT and DELETE /notes/:id

\* As the entry below, with the note looked up in every tenant.
ResolveEntryAnyTenant(auth, id, at) ==
  LET a == Authenticate(auth) IN
  IF ~a.next THEN Reply(a.resp, <<>>)
  ELSE LET e == { n \in notes : n.id = id } IN
    IF e = {} THEN Reply(Error(404, "Not found"), <<"note.findFirst">>)
    ELSE Suspend(at, <<"note.findFirst">>, {}, e, {})

\* authenticate, then note.findFirst and the 404 test; `at` is the await of
\* the mutation that follows.
ResolveEntry(auth, id, at) ==
  LET a == Authenticate(auth) IN
  IF ~a.next THEN Reply(a.resp, <<>>)
  ELSE LET e == NoteFindFirst(id, The(a.user).tenantId) IN
    IF e = {} THEN Reply(Error(404, "Not found"), <<"note.findFirst">>)
    ELSE Suspend(at, <<"note.findFirst">>, {}, e, {})

PutNote(p, auth, id, title, content) ==
  /\ Begin(p, Request("PUT /notes/:id", auth, id, UNDEFINED, title, content, UNDEFINED, UNDEFINED),
           ResolveEntry(auth, id, "put.update"))
  /\ UNCHANGED <<plan, notes, nextId>>

\* note.update({ where: { id: existing.id } }): it throws when the row is
\* gone, and the handler's catch answers 500.
PutNoteUpdate(p) ==
  /\ pc[p] = "put.update"
  /\ Did(p, "note.update")
  /\ LET row == { n \in notes : n.id = The(existing[p]).id } IN
     IF row = {}
       THEN /\ Send(p, Error(500, "Internal server error"))
            /\ UNCHANGED notes
       ELSE LET updated == Updated(The(row), req[p].title, req[p].content) IN
            /\ notes' = (notes \ row) \cup {updated}
            /\ Send(p, Json(200, updated))
  /\ UNCHANGED <<plan, nextId, req, tenant, count, existing, user>>

DeleteNote(p, auth, id) ==
  /\ Begin(p, Request("DELETE /notes/:id", auth, id, UNDEFINED, UNDEFINED, UNDEFINED, UNDEFINED, UNDEFINED),
           ResolveEntry(auth, id, "delete.delete"))
  /\ UNCHANGED <<plan, notes, nextId>>

\* note.delete({ where: { id: existing.id } }): it throws when the row is
\* gone, and the handler's catch answers 500.
DeleteNoteDelete(p) ==
  /\ pc[p] = "delete.delete"
  /\ Did(p, "note.delete")
  /\ LET row == { n \in notes : n.id = The(existing[p]).id } IN
     IF row = {}
       THEN /\ Send(p, Error(500, "Internal server error"))
            /\ UNCHANGED notes
       ELSE /\ notes' = notes \ row
            /\ Send(p, Json(204, <<>>))
  /\ UNCHANGED <<plan, nextId, req, tenant, count, existing, user>>

\* ------------------------------------------------ POST /tenants/:slug/upgrade

\* As the entry below, with the test for a tenant already PRO dropped.
UpgradeEntryNoProTest(auth, slug) ==
  LET a == Authenticate(auth)
      r == RequireRole("ADMIN", a.user)
  IN
  IF ~a.next THEN Reply(a.resp, <<>>)
  ELSE IF ~r.next THEN Reply(r.resp, <<>>)
  ELSE LET t == TenantFindFirst(slug) IN
    IF t = {} THEN Reply(Error(404, "Tenant not found"), <<"tenant.findFirst">>)
    ELSE IF The(t).id # The(a.user).tenantId
      THEN Reply(Error(403, "Cannot upgrade another tenant"), <<"tenant.findFirst">>)
    ELSE Suspend("upgrade.update", <<"tenant.findFirst">>, t, {}, {})

\* authenticate, requireRole('ADMIN'), then tenant.findFirst and the tests
\* on the row found.
UpgradeEntry(auth, slug) ==
  LET a == Authenticate(auth)
      r == RequireRole("ADMIN", a.user)
  IN
  IF ~a.next THEN Reply(a.resp, <<>>)
  ELSE IF ~r.next THEN Reply(r.resp, <<>>)
  ELSE LET t == TenantFindFirst(slug) IN
    IF t = {} THEN Reply(Error(404, "Tenant not found"), <<"tenant.findFirst">>)
    ELSE IF The(t).id # The(a.user).tenantId
      THEN Reply(Error(403, "Cannot upgrade another tenant"), <<"tenant.findFirst">>)
    ELSE IF The(t).plan = "PRO"
      THEN Reply(Json(200, [message |-> "Already PRO", tenant |-> The(t)]),
                 <<"tenant.findFirst">>)
    ELSE Suspend("upgrade.update", <<"tenant.findFirst">>, t, {}, {})

Upgrade(p, auth, slug) ==
  /\ Begin(p, Request("POST /tenants/:slug/upgrade", auth, 0, slug, UNDEFINED, UNDEFINED, UNDEFINED, UNDEFINED),
           UpgradeEntry(auth, slug))
  /\ UNCHANGED <<plan, notes, nextId>>

\* tenant.update({ where: { id: tenant.id }, data: { plan: 'PRO' } })
UpgradeUpdate(p) ==
  /\ pc[p] = "upgrade.update"
  /\ Did(p, "tenant.update")
  /\ LET updated == Upgraded(TenantRow(The(tenant[p]).id)) IN
       /\ plan' = [plan EXCEPT ![updated.id] = updated.plan]
       /\ Send(p, Json(200, [message |-> "Upgraded to PRO", tenant |-> updated]))
  /\ UNCHANGED <<notes, nextId, req, tenant, count, existing, user>>

\* ------------------------------------------------------------- POST /login

toSafeUser(u) == [id |-> u.id, email |-> u.email, role |-> u.role, tenantId |-> u.tenantId]

\* The body check, then user.findUnique and the test on the row found.
LoginEntry(email, password) ==
  IF Falsy(email) \/ Falsy(password)
    THEN Reply(Error(400, "Email and password are required"), <<>>)
  ELSE LET u == UserFindUnique(email) IN
    IF u = {} THEN Reply(Error(401, "Invalid credentials"), <<"user.findUnique">>)
    ELSE Suspend("login.compare", <<"user.findUnique">>, {}, {}, u)

Login(p, email, password) ==
  /\ Begin(p, Request("POST /login", NoHeader, 0, UNDEFINED, UNDEFINED, UNDEFINED, email, password),
           LoginEntry(email, password))
  /\ UNCHANGED <<plan, notes, nextId>>

\* As the reply below, with a message of its own for a wrong password.
LoginReplyTelling(valid, u) ==
  IF ~valid THEN Error(401, "Wrong password")
  ELSE Json(200, [token |-> jwtSign(Claims(u)), user |-> toSafeUser(u)])

\* What the handler answers once bcrypt.compare has resolved to `valid`.
LoginReply(valid, u) ==
  IF ~valid THEN Error(401, "Invalid credentials")
  ELSE Json(200, [token |-> jwtSign(Claims(u)), user |-> toSafeUser(u)])

\* bcrypt.compare, then the token and the safe view of the user.
LoginCompare(p) ==
  /\ pc[p] = "login.compare"
  /\ Send(p, LoginReply(bcryptCompare(req[p].password, The(user[p]).password), The(user[p])))
  /\ UNCHANGED <<plan, notes, nextId, req, tenant, count, existing, user, dbOps>>

\* ------------------------------------------------------------------- inputs

\* The note id asked for: the first note created, which is unknown until it
\* is created, then belongs to either tenant, and is unknown again once deleted.
IdParams == {4}
SlugParams == {"acme", "globex", "nosuch"}
Emails == {"admin@acme.test", "nobody@acme.test"}
Passwords == {"password", "wrong"}

\* A request that authenticate turns away is sent once per route: what it
\* asks for is never looked at.
Sent(auth, first) == auth \in GoodHeaders \/ first

Next ==
  \E p \in Slots :
    \/ \E auth \in Headers, title \in {"a", UNDEFINED} :
         Sent(auth, title = "a") /\ PostNotes(p, auth, title, "a")
    \/ PostNotesCount(p)
    \/ PostNotesCreate(p)
    \/ \E auth \in Headers : GetNotes(p, auth)
    \/ \E auth \in Headers, id \in IdParams : GetNote(p, auth, id)
    \/ \E auth \in Headers, id \in IdParams : PutNote(p, auth, id, "b", "b")
    \/ PutNoteUpdate(p)
    \/ \E auth \in Headers, id \in IdParams : DeleteNote(p, auth, id)
    \/ DeleteNoteDelete(p)
    \/ \E auth \in Headers, slug \in SlugParams :
         Sent(auth, slug = "acme") /\ Upgrade(p, auth, slug)
    \/ UpgradeUpdate(p)
    \/ \E email \in Emails \cup {UNDEFINED}, password \in Passwords :
         (email = UNDEFINED => password = "password") /\ Login(p, email, password)
    \/ LoginCompare(p)

Spec == Init /\ [][Next]_vars

\* Every handler runs to its end before the next request arrives.
Quiet == \A q \in Slots : ~InFlight(q)

NextSerial ==
  \E p \in Slots :
    \/ \E auth \in Headers, title \in {"a", UNDEFINED} :
         Quiet /\ Sent(auth, title = "a") /\ PostNotes(p, auth, title, "a")
    \/ PostNotesCount(p)
    \/ PostNotesCreate(p)
    \/ \E auth \in Headers : Quiet /\ GetNotes(p, auth)
    \/ \E auth \in Headers, id \in IdParams :
         Quiet /\ GetNote(p, auth, id)
    \/ \E auth \in Headers, id \in IdParams : Quiet /\ PutNote(p, auth, id, "b", "b")
    \/ PutNoteUpdate(p)
    \/ \E auth \in Headers, id \in IdParams :
         Quiet /\ DeleteNote(p, auth, id)
    \/ DeleteNoteDelete(p)
    \/ \E auth \in Headers, slug \in SlugParams :
         Quiet /\ Sent(auth, slug = "acme") /\ Upgrade(p, auth, slug)
    \/ UpgradeUpdate(p)
    \/ \E email \in Emails \cup {UNDEFINED}, password \in Passwords :
         Quiet /\ (email = UNDEFINED => password = "password") /\ Login(p, email, password)
    \/ LoginCompare(p)

SpecSerial == Init /\ [][NextSerial]_vars


\* ------------------------------------------------------------------- claims

Done(p) == pc[p] = "done"
\* The identity a token issued by login carries.
Caller(auth) == auth[2].payload
\* A header with no token, or whose token fails the signature or the expiry.
Unauthenticated(auth) ==
  Len(auth) < 2 \/ auth[2].key # JWT_SECRET \/ auth[2].expired
LiveNotes(t) == { n \in notes : n.tenantId = t }
NotesRoutes ==
  {"POST /notes", "GET /notes", "GET /notes/:id", "PUT /notes/:id", "DELETE /notes/:id"}
\* Slot p holds the finished exchange of a request to `route` by a caller
\* whose token login issued.
Answered(p, route) == Done(p) /\ req[p].route = route /\ req[p].auth \in GoodHeaders

\* C1: a GET /notes/:id answers 200 only with the note of that id of the
\* caller's own tenant; while a note of that id exists in another tenant the
\* answer on record is 404.
C1_TenantIsolation ==
  \A p \in Slots : Answered(p, "GET /notes/:id") =>
    LET me == Caller(req[p].auth).tenantId IN
      /\ resp[p].status \in {200, 404}
      /\ resp[p].status = 200 =>
           resp[p].body.id = req[p].id /\ resp[p].body.tenantId = me
      /\ (\E n \in notes : n.id = req[p].id /\ n.tenantId # me) =>
           resp[p] = Error(404, "Not found")

C1_Witness ==
  \E p \in Slots :
    /\ Answered(p, "GET /notes/:id")
    /\ \E n \in notes : n.id = req[p].id /\ n.tenantId # Caller(req[p].auth).tenantId
    /\ resp[p].status = 404

\* The arrival of a PUT or DELETE whose id resolves to nothing of the caller's.
C2_Step(p, auth, id) ==
  ( /\ PutNote(p, auth, id, "b", "b") \/ DeleteNote(p, auth, id)
    /\ ~ \E n \in notes : n.id = id /\ n.tenantId = Caller(auth).tenantId )
  => /\ resp'[p] = Error(404, "Not found")
     /\ pc'[p] = "done"
     /\ notes' = notes

\* C2: a PUT or DELETE whose id resolves to no note of the caller's tenant is
\* answered 404 at once, and no note is modified or removed.
C2_UnresolvedMutation ==
  [][\A p \in Slots, auth \in GoodHeaders, id \in IdParams : C2_Step(p, auth, id)]_vars

C2_Witness ==
  \E p \in Slots :
    /\ Answered(p, "PUT /notes/:id") \/ Answered(p, "DELETE /notes/:id")
    /\ \E n \in notes : n.id = req[p].id /\ n.tenantId # Caller(req[p].auth).tenantId
    /\ resp[p].status = 404
    /\ dbOps[p] = <<"note.findFirst">>

\* The three steps of a POST /notes with title and content.
C3_Step(p) ==
  /\ \A auth \in GoodHeaders : PostNotes(p, auth, "a", "a") =>
       /\ pc'[p] = IF plan[Caller(auth).tenantId] = "FREE"
                     THEN "create.count" ELSE "create.insert"
       /\ notes' = notes
  /\ PostNotesCount(p) =>
       /\ notes' = notes
       /\ IF Cardinality(LiveNotes(Caller(req[p].auth).tenantId)) >= 3
            THEN pc'[p] = "done" /\ resp'[p].status = 402
            ELSE pc'[p] = "create.insert"
  /\ PostNotesCreate(p) =>
       /\ pc'[p] = "done" /\ resp'[p].status = 201
       /\ resp'[p].body.tenantId = Caller(req[p].auth).tenantId
       /\ resp'[p].body \notin notes
       /\ notes' = notes \cup {resp'[p].body}

\* C3: a POST /notes with title and content goes to the count exactly when
\* the tenant's plan is FREE; the count answers 402 and creates nothing
\* exactly when the live number of the tenant's notes is 3 or more; in every
\* other case the request is answered 201 and one note of the caller's
\* tenant is added.
C3_PlanLimit == [][\A p \in Slots : C3_Step(p)]_vars

C3_Witness ==
  \E p \in Slots :
    /\ Answered(p, "POST /notes")
    /\ resp[p].status = 402
    /\ count[p] = 3
    /\ dbOps[p] = <<"tenant.findUnique", "note.count">>

\* C4: every POST /notes answered 201 for a tenant loaded as FREE passed the
\* count check (it counted fewer than 3 notes); the witness is the state in
\* which two interleaved requests both passed it at the boundary, both were
\* answered 201, and the FREE tenant holds more than 3 notes.
C4_CreatedPassedCheck ==
  \A p \in Slots :
    (Answered(p, "POST /notes") /\ resp[p].status = 201 /\ The(tenant[p]).plan = "FREE")
      => /\ count[p] < 3
         /\ dbOps[p] = <<"tenant.findUnique", "note.count", "note.create">>

C4_Witness ==
  \E t \in Tenants :
    /\ plan[t] = "FREE"
    /\ Cardinality(LiveNotes(t)) > 3
    /\ \A p \in Slots :
         /\ Answered(p, "POST /notes")
         /\ Caller(req[p].auth).tenantId = t
         /\ resp[p].status = 201
         /\ count[p] = 2

\* The arrival of an upgrade request, and any step that writes a plan.
C5_Step(p, auth, slug) ==
  Upgrade(p, auth, slug) =>
    /\ Caller(auth).role # "ADMIN" => pc'[p] = "done" /\ resp'[p].status = 403
    /\ (\E t \in Tenants : Slug[t] = slug /\ t # Caller(auth).tenantId) =>
         pc'[p] = "done" /\ resp'[p].status = 403

C5_PlanWrite ==
  plan' # plan =>
    \E p \in Slots :
      LET c == Caller(req[p].auth) IN
        /\ pc[p] = "upgrade.update"
        /\ req[p].auth \in GoodHeaders
        /\ c.role = "ADMIN"
        /\ req[p].slug = Slug[c.tenantId]
        /\ \A t \in Tenants : t # c.tenantId => plan'[t] = plan[t]

\* C5: an upgrade request of a caller who is not ADMIN, or of an ADMIN whose
\* slug resolves to another tenant, is answered 403 at once; a plan changes
\* only in the update of an upgrade by an ADMIN for the caller's own slug,
\* and then only that tenant's plan.
C5_UpgradeAuthorization ==
  [][ /\ \A p \in Slots, auth \in GoodHeaders, slug \in SlugParams : C5_Step(p, auth, slug)
      /\ C5_PlanWrite ]_vars

C5_Witness ==
  \E p \in Slots :
    /\ Answered(p, "POST /tenants/:slug/upgrade")
    /\ Caller(req[p].auth).role = "ADMIN"
    /\ \E t \in Tenants : Slug[t] = req[p].slug /\ t # Caller(req[p].auth).tenantId
                          /\ plan[t] = "FREE"
    /\ resp[p] = Error(403, "Cannot upgrade another tenant")

\* The arrival of an ADMIN's upgrade of the caller's own tenant, and its update.
C6_Step(p, auth) ==
  LET t == Caller(auth).tenantId IN
  (Caller(auth).role = "ADMIN" /\ Upgrade(p, auth, Slug[t])) =>
    IF plan[t] = "PRO"
      THEN /\ pc'[p] = "done"
           /\ resp'[p] = Json(200, [message |-> "Already PRO",
                                    tenant |-> [id |-> t, slug |-> Slug[t], plan |-> "PRO"]])
           /\ dbOps'[p] = <<"tenant.findFirst">>
           /\ plan' = plan
      ELSE pc'[p] = "upgrade.update"

C6_Update(p) ==
  UpgradeUpdate(p) =>
    /\ pc'[p] = "done"
    /\ resp'[p].status = 200
    /\ resp'[p].body.message = "Upgraded to PRO"
    /\ plan'[Caller(req[p].auth).tenantId] = "PRO"

\* C6: an ADMIN's upgrade of the caller's own tenant is answered 200 whether
\* the plan is FREE (the update sets it to PRO) or already PRO (the answer
\* says so and the tenant is left as it is).
C6_UpgradeIdempotent ==
  [][\A p \in Slots : C6_Update(p) /\ \A auth \in GoodHeaders : C6_Step(p, auth)]_vars

C6_Witness ==
  \E p \in Slots :
    /\ Answered(p, "POST /tenants/:slug/upgrade")
    /\ resp[p].status = 200
    /\ resp[p].body.message = "Already PRO"
    /\ plan[Caller(req[p].auth).tenantId] = "PRO"

\* C7: a plan that is PRO stays PRO, and a plan changes only in the update of
\* an upgrade.
C7_PlanMonotone ==
  [][ /\ \A t \in Tenants : plan[t] = "PRO" => plan'[t] = "PRO"
      /\ plan' # plan => \E p \in Slots : UpgradeUpdate(p) ]_vars

C7_Witness ==
  \E p \in Slots :
    /\ Answered(p, "POST /notes")
    /\ resp[p].status = 201
    /\ The(tenant[p]).plan = "PRO"
    /\ plan[The(tenant[p]).id] = "PRO"

\* C8: a request to a /notes route with no token, or with a token that fails
\* the signature or the expiry check, is answered 401 on arrival and makes no
\* database call.
C8_Unauthenticated ==
  \A p \in Slots :
    (req[p].route \in NotesRoutes /\ Unauthenticated(req[p].auth)) =>
      /\ pc[p] = "done"
      /\ resp[p].status = 401
      /\ dbOps[p] = <<>>

C8_Witness ==
  \E p \in Slots :
    /\ Done(p) /\ req[p].route = "POST /notes" /\ req[p].auth = Bearer(ExpiredToken)
    /\ resp[p] = Error(401, "Invalid token")

\* The two failing logins, both with email and password present.
UnknownEmail(p) ==
  /\ Done(p) /\ req[p].route = "POST /login"
  /\ ~Falsy(req[p].email) /\ ~Falsy(req[p].password)
  /\ \A u \in Users : u.email # req[p].email
WrongPassword(p) ==
  /\ Done(p) /\ req[p].route = "POST /login"
  /\ ~Falsy(req[p].email) /\ ~Falsy(req[p].password)
  /\ \E u \in Users : u.email = req[p].email /\ u.password # bcryptHash(req[p].password)

\* C9: a login for an email no user has and a login for a user's email with
\* a password that does not match get the same response, a 401.
C9_LoginSameFailure ==
  \A p, q \in Slots :
    (UnknownEmail(p) /\ WrongPassword(q)) => resp[p].status = 401 /\ resp[p] = resp[q]

C9_Witness ==
  \E p, q \in Slots : UnknownEmail(p) /\ WrongPassword(q) /\ resp[q].status = 401

\* C10: when no two handlers interleave, a tenant whose plan is FREE never
\* holds more than 3 notes.
C10_SerialQuota ==
  \A t \in Tenants : plan[t] = "FREE" => Cardinality(LiveNotes(t)) <= 3

C10_Witness ==
  \E p \in Slots :
    /\ Answered(p, "POST /notes")
    /\ resp[p].status = 402
    /\ plan[Caller(req[p].auth).tenantId] = "FREE"
    /\ Cardinality(LiveNotes(Caller(req[p].auth).tenantId)) = 3

====
